---------------------------- MODULE Spec2Model ----------------------------
(***************************************************************************)
(* The beat scheduler (class Metronome, src/lib/metronome.ts lines 154-354)*)
(* the timing arithmetic (src/unnamed/part_000) and the latency calibrator *)
(* (CalibrationOverlay, src/unnamed/part_001) of the-pocket.               *)
(*                                                                         *)
(* Time.  60000 / bpm is not a whole number of milliseconds for the        *)
(* default tempo (bpm = 90 gives 666.66.. ms), so every time value of the  *)
(* model is an integer count of thirds of a millisecond: Ms(x) is x        *)
(* milliseconds in that unit, and 60000 / bpm is exact for every tempo the *)
(* model uses.                                                             *)
(*                                                                         *)
(* Asynchrony.  start() and tick() are async functions that suspend on     *)
(* playClick(); JavaScript runs each stretch between two awaits            *)
(* atomically.  One action models one such stretch; a suspended call is a  *)
(* record in `inflight` that a later AudioDone step resumes.               *)
(***************************************************************************)
EXTENDS Integers, Sequences, FiniteSets, TLC

VARIABLES
    \* ---- Metronome (this.state and the private fields)
    isPlaying, bpm, startTime, currentBeat, isCountingIn,
    countInBeatsRemaining, tickInterval, sound, nextScheduledBeat,
    audioLatencyMs,
    \* ---- environment of the Metronome
    now,            \* performance.now(), in time units
    loaded,         \* the audio handles that are loaded and still referenced
    lost,           \* TRUE once a loaded handle is referred to by nothing
    activeTimers,   \* number of setInterval timers not cleared
    inflight,       \* suspended start()/tick() calls, awaiting audio
    \* ---- observation of the Metronome
    events,         \* callbacks invoked since the latest start()
    lastCall,       \* the latest call made on the Metronome
    sessions,       \* number of start() calls that took effect
    sessionIntervalMs,  \* beat interval in force at the latest start()
    \* ---- CalibrationOverlay (React state and refs)
    phase, offsets, lockedAverage, confirmationTaps, previousAvgRef,
    detectedLatency,
    lastTap,        \* the phase the latest handleTap() call saw
    \* ---- GameScreen (src/app/index.tsx)
    isCalibrating,  \* the CalibrationOverlay is mounted
    audioLatency,   \* the latency the play screen applies
    completeCalls,  \* arguments of the onCalibrationComplete calls made
    lastOffset,     \* the offset of the latest tap on the play screen
    screenOffsets,  \* the play screen's offsets
    \* ---- the timing functions applied on their own
    calc            \* the latest application and its result

metronomeVars == <<isPlaying, bpm, startTime, currentBeat, isCountingIn,
                   countInBeatsRemaining, tickInterval, sound,
                   nextScheduledBeat, audioLatencyMs>>
envVars == <<now, activeTimers, inflight>>
audioVars == <<loaded, lost>>
obsVars == <<events, lastCall, sessions, sessionIntervalMs>>
overlayVars == <<phase, offsets, lockedAverage, confirmationTaps,
                 previousAvgRef, detectedLatency>>
screenVars == <<lastOffset, screenOffsets>>
appVars == <<lastTap, isCalibrating, audioLatency, completeCalls, calc,
             screenVars>>
vars == <<metronomeVars, envVars, audioVars, obsVars, overlayVars, appVars>>

-----------------------------------------------------------------------------
(* Bounds of the model *)

ClockStep == 700        \* the clock advances in steps of this many ms
MaxTime == 3500         \* the clock stops advancing at this many ms
MaxInflight == 2        \* suspended start()/tick() calls at one time
MaxSessions == 2        \* start() calls that take effect in one behaviour
MaxBeat == 1            \* the last beat index a tick may fire

-----------------------------------------------------------------------------
(* Values *)

None == <<>>
Some(v) == <<v>>
Get(o) == o[1]

Ms(x) == 3 * x

\* NaN, the number that compares with nothing: an integer that no other
\* value of the model takes stands for it.
NaN == -1000000

\* Math.max and Math.min: NaN when an argument is NaN
Max(a, b) == IF a = NaN \/ b = NaN THEN NaN ELSE IF a >= b THEN a ELSE b
Min(a, b) == IF a = NaN \/ b = NaN THEN NaN ELSE IF a <= b THEN a ELSE b
Abs(a) == IF a < 0 THEN -a ELSE a

AUDIO_LOOKAHEAD_MS == 50
DEFAULT_AUDIO_LATENCY_MS == 0
DEFAULT_COUNT_IN_BEATS == 4
countInBeats == DEFAULT_COUNT_IN_BEATS

BpmInputs == {250}
LatencyInputs == {0, 80}

bpmToIntervalMs(b) == IF b = NaN THEN NaN ELSE Ms(60000) \div b

getBeatIntervalMs == bpmToIntervalMs(bpm)

clampBpm(b) == Max(40, Min(200, b))


-----------------------------------------------------------------------------
(* Metronome: src/lib/metronome.ts *)

Emit(e) == events' = Append(events, e)

OnCountIn(beatsRemaining) == <<"onCountIn", beatsRemaining>>
OnCountInComplete == <<"onCountInComplete">>
OnBeat(beatNumber, beatTime) == <<"onBeat", beatNumber, beatTime>>

RemoveAt(s, i) == SubSeq(s, 1, i - 1) \o SubSeq(s, i + 1, Len(s))

\* playClick() up to its first await: unloadAsync() of the previous sound
\* when there is one (line 331), createAsync() otherwise (line 336).
PlayClickEntry == IF sound # None THEN "unload" ELSE "create"

\* Audio handles.  The handle this.sound refers to is CurrentHandle; a
\* handle that this.sound no longer refers to keeps a name of its own
\* while a suspended unloadAsync() still holds it; `lost` records that a
\* loaded handle came to be referred to by nothing.
CurrentHandle == 0
NoHandle == -1

\* The handle a call holds at its first await (lines 331-332, 349-350)
HeldHandle == IF sound # None THEN CurrentHandle ELSE NoHandle

Suspend(kind, nextBeatTime) ==
    inflight' = Append(inflight, [kind |-> kind, pc |-> PlayClickEntry,
                                  nextBeatTime |-> nextBeatTime,
                                  handle |-> HeldHandle])

\* setBpm(bpm), line 222
SetBpm(b) ==
    /\ bpm' = clampBpm(b)
    /\ lastCall' = [op |-> "setBpm", wasPlaying |-> isPlaying]
    /\ UNCHANGED <<isPlaying, startTime, currentBeat, isCountingIn,
                   countInBeatsRemaining, tickInterval, sound, audioVars,
                   nextScheduledBeat, audioLatencyMs, envVars, events,
                   sessions, sessionIntervalMs, overlayVars, appVars>>

\* setAudioLatency(latencyMs), line 203
SetAudioLatency(l) ==
    /\ audioLatencyMs' = l
    /\ lastCall' = [op |-> "setAudioLatency", wasPlaying |-> isPlaying]
    /\ UNCHANGED <<isPlaying, bpm, startTime, currentBeat, isCountingIn,
                   countInBeatsRemaining, tickInterval, sound, audioVars,
                   nextScheduledBeat, envVars, events, sessions,
                   sessionIntervalMs, overlayVars, appVars>>

\* getAdjustedStartTime(), line 242
getAdjustedStartTime ==
    IF startTime = None THEN None ELSE Some(Get(startTime) + Ms(audioLatencyMs))

\* start() without its guard
StartNeverIgnored == FALSE

\* start(), line 260: the call is ignored while playing
StartIgnored == isPlaying

\* start() anchoring beat 0 at the call, without the count-in
StartTimeAtCall(t) == t

\* start(), lines 269-270: beat 0 lies countInBeats intervals after t
StartTimeAt(t) == t + countInBeats * getBeatIntervalMs

\* start(), lines 259-273: the part that runs before the first await
StartBody ==
    IF StartIgnored
    THEN UNCHANGED <<isPlaying, currentBeat, isCountingIn,
                     countInBeatsRemaining, nextScheduledBeat, startTime,
                     inflight, events, sessions, sessionIntervalMs>>
    ELSE /\ sessions < MaxSessions
         /\ Len(inflight) < MaxInflight
         /\ isPlaying' = TRUE
         /\ currentBeat' = -countInBeats
         /\ isCountingIn' = TRUE
         /\ countInBeatsRemaining' = countInBeats
         /\ nextScheduledBeat' = -countInBeats
         /\ startTime' = Some(StartTimeAt(now))
         /\ Suspend("start", 0)
         /\ events' = <<>>
         /\ sessions' = sessions + 1
         /\ sessionIntervalMs' = getBeatIntervalMs

StartCall ==
    /\ StartBody
    /\ lastCall' = [op |-> "start", wasPlaying |-> isPlaying]
    /\ UNCHANGED <<bpm, tickInterval, sound, audioVars, audioLatencyMs, now,
                   activeTimers>>

Start == StartCall /\ UNCHANGED <<overlayVars, appVars>>

\* start(), lines 274-278: the part that runs once playClick() has returned
AfterStartClick ==
    /\ Emit(OnCountIn(countInBeatsRemaining))
    /\ nextScheduledBeat' = -countInBeats + 1
    /\ activeTimers' = activeTimers + 1
    /\ tickInterval' = Some(activeTimers + 1)
    /\ UNCHANGED <<isPlaying, currentBeat, isCountingIn,
                   countInBeatsRemaining>>

\* stop(), lines 281-294
StopBody ==
    IF ~isPlaying
    THEN UNCHANGED <<isPlaying, startTime, currentBeat, isCountingIn,
                     countInBeatsRemaining, tickInterval, activeTimers>>
    ELSE /\ isPlaying' = FALSE
         /\ startTime' = None
         /\ currentBeat' = 0
         /\ isCountingIn' = FALSE
         /\ countInBeatsRemaining' = 0
         /\ IF tickInterval # None
            THEN /\ activeTimers' = activeTimers - 1
                 /\ tickInterval' = None
            ELSE UNCHANGED <<activeTimers, tickInterval>>

Stop ==
    /\ StopBody
    /\ lastCall' = [op |-> "stop", wasPlaying |-> isPlaying]
    /\ UNCHANGED <<bpm, sound, audioVars, nextScheduledBeat, audioLatencyMs,
                   now,
                   inflight, events, sessions, sessionIntervalMs,
                   overlayVars, appVars>>

\* The beat time taken from the latency-adjusted start time
NextBeatTimeAdjusted ==
    Get(getAdjustedStartTime) + nextScheduledBeat * getBeatIntervalMs

\* tick(), line 301
NextBeatTime == Get(startTime) + nextScheduledBeat * getBeatIntervalMs

\* Every beat taken to be due at every tick
BeatIsDueAlways(t, nextBeatTime) == TRUE

\* tick(), line 304
BeatIsDue(t, nextBeatTime) == t >= nextBeatTime - Ms(AUDIO_LOOKAHEAD_MS)

\* tick(), lines 296-309: the part that runs before the await; a cadence
\* timer must be active for tick() to be invoked at all (line 278).
TickBody ==
    IF ~isPlaying \/ startTime = None
    THEN UNCHANGED <<currentBeat, nextScheduledBeat, inflight>>
    ELSE IF BeatIsDue(now, NextBeatTime)
         THEN /\ Len(inflight) < MaxInflight
              /\ nextScheduledBeat <= MaxBeat
              /\ currentBeat' = nextScheduledBeat
              /\ nextScheduledBeat' = nextScheduledBeat + 1
              /\ Suspend("tick", NextBeatTime)
         ELSE UNCHANGED <<currentBeat, nextScheduledBeat, inflight>>

Tick ==
    /\ activeTimers > 0
    /\ TickBody
    /\ lastCall' = [op |-> "tick", wasPlaying |-> isPlaying]
    /\ UNCHANGED <<isPlaying, bpm, startTime, isCountingIn,
                   countInBeatsRemaining, tickInterval, sound, audioVars,
                   audioLatencyMs, now, activeTimers, events, sessions,
                   sessionIntervalMs, overlayVars, appVars>>

\* The count-in taken to end at every regular beat
CountInEndsAtEveryBeat == TRUE

\* tick(), line 318: the first regular beat ends the count-in
CountInEnds == isCountingIn

\* tick(), lines 311-324: the part that runs once playClick() has returned;
\* nextBeatTime is the local computed before the await.
AfterTickClick(nextBeatTime) ==
    /\ IF currentBeat < 0
       THEN /\ countInBeatsRemaining' = Abs(currentBeat)
            /\ Emit(OnCountIn(Abs(currentBeat)))
            /\ UNCHANGED isCountingIn
       ELSE /\ isCountingIn' = FALSE
            /\ countInBeatsRemaining' =
                   IF CountInEnds THEN 0 ELSE countInBeatsRemaining
            /\ events' = events
                   \o (IF CountInEnds THEN <<OnCountInComplete>> ELSE <<>>)
                   \o <<OnBeat(currentBeat, nextBeatTime)>>
    /\ UNCHANGED <<isPlaying, currentBeat, nextScheduledBeat, activeTimers,
                   tickInterval>>

\* cleanup() without its call of stop()
CleanupWithoutStop ==
    /\ UNCHANGED <<isPlaying, startTime, currentBeat, isCountingIn,
                   countInBeatsRemaining, tickInterval, activeTimers>>
    /\ IF sound # None
       THEN inflight' = Append(inflight, [kind |-> "cleanup", pc |-> "unload",
                                          nextBeatTime |-> 0,
                                          handle |-> HeldHandle])
       ELSE UNCHANGED inflight

\* cleanup(), lines 347-353, up to its await: stop(), then unloadAsync() of
\* the sound when there is one.
CleanupBody ==
    /\ StopBody
    /\ IF sound # None
       THEN inflight' = Append(inflight, [kind |-> "cleanup", pc |-> "unload",
                                          nextBeatTime |-> 0,
                                          handle |-> HeldHandle])
       ELSE UNCHANGED inflight

\* playClick() letting a rejected request escape to its caller
PlayClickThrows(ok) == ok

\* playClick(), lines 329-344: the try/catch makes the call return to
\* start() or tick() whether the request was resolved or rejected.
PlayClickReturns(ok) == TRUE

\* The handles the suspended unloadAsync() calls of recs hold
Captured(recs) ==
    {recs[j].handle : j \in {k \in 1..Len(recs) : recs[k].pc = "unload"}}

\* A name no suspended call holds
FreshHandle(recs) ==
    CHOOSE n \in 1..(Len(recs) + 1) :
        /\ n \notin Captured(recs)
        /\ \A m \in 1..(n - 1) : m \in Captured(recs)

\* this.sound stops referring to its handle (it is assigned, lines 341 and
\* 351): a handle some suspended call holds keeps a name, a loaded handle
\* nothing refers to is lost.
Retire(a) ==
    IF a.sound = None THEN a
    ELSE IF CurrentHandle \in Captured(a.inflight)
    THEN LET f == FreshHandle(a.inflight) IN
         [sound |-> None,
          loaded |-> IF CurrentHandle \in a.loaded
                     THEN (a.loaded \ {CurrentHandle}) \cup {f}
                     ELSE a.loaded,
          lost |-> a.lost,
          inflight |-> [j \in 1..Len(a.inflight) |->
                          IF /\ a.inflight[j].pc = "unload"
                             /\ a.inflight[j].handle = CurrentHandle
                          THEN [a.inflight[j] EXCEPT !.handle = f]
                          ELSE a.inflight[j]]]
    ELSE [sound |-> None,
          loaded |-> a.loaded \ {CurrentHandle},
          lost |-> a.lost \/ CurrentHandle \in a.loaded,
          inflight |-> a.inflight]

\* A call that held handle h is over without having unloaded it
Release(a, h) ==
    IF h > CurrentHandle /\ h \notin Captured(a.inflight) /\ h \in a.loaded
    THEN [a EXCEPT !.loaded = @ \ {h}, !.lost = TRUE]
    ELSE a

\* The await that suspended call i settles, resolved (ok) or rejected: what
\* becomes of the handles and of the suspended calls.
\* playClick(), lines 328-345: after unloadAsync() comes createAsync(), after
\* createAsync() the new handle is assigned to this.sound; a rejection is
\* caught (line 342).  cleanup(), lines 350-351: after unloadAsync()
\* this.sound is set to null; a rejection ends cleanup().
Settled(i, ok) ==
    LET r == inflight[i]
        cur == [sound |-> sound, loaded |-> loaded, lost |-> lost,
                inflight |-> inflight]
        removed == [cur EXCEPT !.inflight = RemoveAt(inflight, i)]
    IN  IF r.pc = "unload"
        THEN IF ~ok THEN Release(removed, r.handle)
             ELSE IF r.kind = "cleanup"
             THEN Retire([removed EXCEPT !.loaded = @ \ {r.handle}])
             ELSE [cur EXCEPT !.loaded = @ \ {r.handle},
                              !.inflight = [inflight EXCEPT
                                               ![i].pc = "create",
                                               ![i].handle = NoHandle]]
        ELSE IF ~ok THEN removed
             ELSE LET t == Retire(removed) IN
                  [t EXCEPT !.sound = Some("sound"),
                            !.loaded = @ \cup {CurrentHandle}]

\* The outcome a with the handles left unaccounted: loaded and lost stay as
\* they are and a suspended unloadAsync() holds the handle it was called
\* on.  The handles decide nothing in the code, so the calls resume alike;
\* they are accounted for in AudioSpec only.
Unaccounted(a) ==
    [sound |-> a.sound,
     loaded |-> loaded,
     lost |-> lost,
     inflight |-> [j \in 1..Len(a.inflight) |->
                     [a.inflight[j] EXCEPT
                        !.handle = IF a.inflight[j].pc = "unload"
                                   THEN CurrentHandle ELSE NoHandle]]]

\* The await that suspended call i settles with the outcome a; start() or
\* tick() resumes when its playClick() has returned.
Resume(i, ok, a) ==
    LET r == inflight[i]
    IN  /\ sound' = a.sound
        /\ loaded' = a.loaded
        /\ lost' = a.lost
        /\ inflight' = a.inflight
        /\ IF r.kind = "cleanup" \/ (r.pc = "unload" /\ ok)
           THEN UNCHANGED <<isPlaying, currentBeat, isCountingIn,
                            countInBeatsRemaining, nextScheduledBeat,
                            activeTimers, tickInterval, events>>
           ELSE IF PlayClickReturns(ok)
           THEN IF r.kind = "start"
                THEN AfterStartClick
                ELSE AfterTickClick(r.nextBeatTime)
           ELSE UNCHANGED <<isPlaying, currentBeat, isCountingIn,
                            countInBeatsRemaining, nextScheduledBeat,
                            activeTimers, tickInterval, events>>

AudioDoneBody(i, ok) == Resume(i, ok, Unaccounted(Settled(i, ok)))

AudioDone ==
    \E i \in 1..Len(inflight), ok \in BOOLEAN :
        /\ AudioDoneBody(i, ok)
        /\ UNCHANGED <<bpm, startTime, audioLatencyMs, now, lastCall,
                       sessions, sessionIntervalMs, overlayVars, appVars>>

\* The same with the handles accounted for
AccountedAudioDone ==
    \E i \in 1..Len(inflight), ok \in BOOLEAN :
        /\ Resume(i, ok, Settled(i, ok))
        /\ UNCHANGED <<bpm, startTime, audioLatencyMs, now, lastCall,
                       sessions, sessionIntervalMs, overlayVars, appVars>>

\* performance.now() moves on
Advance ==
    /\ now < Ms(MaxTime)
    /\ now' = now + Ms(ClockStep)
    /\ UNCHANGED <<metronomeVars, activeTimers, inflight, audioVars, obsVars,
                   overlayVars, appVars>>

-----------------------------------------------------------------------------
(* Timing arithmetic: src/unnamed/part_000.  A quotient of two integers is  *)
(* kept exact as the pair <<numerator, denominator>>, denominator > 0.      *)

RECURSIVE SumSeq(_)
SumSeq(s) == IF s = <<>> THEN 0 ELSE s[1] + SumSeq(Tail(s))

\* The quotient rounded down instead of to the nearest integer
MathFloor(num, den) == num \div den

\* Math.round of num / den: the nearest integer, a half rounded up
MathRound(num, den) == (2 * num + den) \div (2 * den)

\* Math.abs(a - b) <= k for the quotients a and b
AbsDiffLE(a, b, k) == Abs(a[1] * b[2] - b[1] * a[2]) <= k * a[2] * b[2]

\* calculateTimingOffset(tapTime, startTime, beatIntervalMs).offsetMs,
\* lines 19-38
calculateTimingOffset(tapTime, start, beatIntervalMs) ==
    LET elapsed == tapTime - start
        beatNumber == MathRound(elapsed, beatIntervalMs)
        nearestBeatTime == start + beatNumber * beatIntervalMs
    IN  tapTime - nearestBeatTime

\* calculateTimingOffset(tapTime, startTime, beatIntervalMs)
\* .nearestBeatTime, lines 24-28
nearestBeatTime(tapTime, start, beatIntervalMs) ==
    LET elapsed == tapTime - start
        beatNumber == MathRound(elapsed, beatIntervalMs)
    IN  start + beatNumber * beatIntervalMs

\* The first threshold taken exclusive
IsPerfectExclusive(absOffset) == absOffset < 20

\* getAccuracyRating(offsetMs), line 56
IsPerfect(absOffset) == absOffset <= 20

\* getAccuracyRating(offsetMs).rating, lines 50-65
getAccuracyRating(offsetMs) ==
    LET absOffset == Abs(offsetMs) IN
    IF IsPerfect(absOffset) THEN "perfect"
    ELSE IF absOffset <= 50 THEN "good"
    ELSE IF absOffset <= 100 THEN "okay"
    ELSE "miss"

\* calculateAverageOffset(offsets), lines 70-74
calculateAverageOffset(o) ==
    IF Len(o) = 0 THEN <<0, 1>> ELSE <<SumSeq(o), Len(o)>>

-----------------------------------------------------------------------------
(* CalibrationOverlay: src/unnamed/part_001.  Its Metronome is the one      *)
(* modelled above; its React state is overlayVars.  A handler and the       *)
(* renders and effects that follow it, up to the render that queues no      *)
(* further update, are one action.                                          *)

CALIBRATION_BPM == 90
STABILITY_THRESHOLD_MS == 2
CONFIRMATION_BEATS == 16
MIN_TAPS_BEFORE_LOCK == 8

MaxTaps == 26           \* taps accepted in one calibration session

\* The state one render sees
Rendered ==
    [phase |-> phase, offsets |-> offsets, lockedAverage |-> lockedAverage,
     confirmationTaps |-> confirmationTaps,
     detectedLatency |-> detectedLatency]

\* The drift taken without Math.abs
StableSigned(avgOffset, reference) ==
    reference[1] * avgOffset[2] - avgOffset[1] * reference[2]
        <= Ms(STABILITY_THRESHOLD_MS) * avgOffset[2] * reference[2]

\* drift <= STABILITY_THRESHOLD_MS, lines 81-82 and 92-93
Stable(avgOffset, reference) ==
    AbsDiffLE(avgOffset, reference, Ms(STABILITY_THRESHOLD_MS))

\* The stability check made whatever the number of samples
TooFewTapsNever(n) == FALSE

\* The minimum taken exclusive
TooFewTapsInclusive(n) == n <= MIN_TAPS_BEFORE_LOCK

\* offsets.length < MIN_TAPS_BEFORE_LOCK, line 73
TooFewTaps(n) == n < MIN_TAPS_BEFORE_LOCK

\* The lock taken without counting the locking tap
LockedUncounted(q, avgOffset) ==
    [q EXCEPT !.lockedAverage = Some(avgOffset), !.phase = "locked"]

\* The lock taken without recording the average
LockedWithoutAverage(q, avgOffset) ==
    [q EXCEPT !.confirmationTaps = 1, !.phase = "locked"]

\* The updates queued on locking, lines 83-85
Locked(q, avgOffset) ==
    [q EXCEPT !.lockedAverage = Some(avgOffset),
              !.confirmationTaps = 1,
              !.phase = "locked"]

\* The effect "Check calibration progress", lines 72-101, run for the render
\* r: q is the state with the updates queued so far, ref is
\* previousAvgRef.current.
ProgressEffect(r, q, ref) ==
    IF TooFewTaps(Len(r.offsets)) THEN [q |-> q, ref |-> ref]
    ELSE
    LET avgOffset == calculateAverageOffset(r.offsets) IN
    IF r.phase = "tapping"
    THEN [q |-> IF ref # None /\ Stable(avgOffset, Get(ref))
                THEN Locked(q, avgOffset)
                ELSE q,
          ref |-> Some(avgOffset)]
    ELSE IF r.phase = "locked"
    THEN IF ~Stable(avgOffset, IF r.lockedAverage # None
                               THEN Get(r.lockedAverage) ELSE avgOffset)
         THEN [q |-> [q EXCEPT !.phase = "tapping",
                               !.lockedAverage = None,
                               !.confirmationTaps = 0],
               ref |-> Some(avgOffset)]
         ELSE [q |-> q, ref |-> ref]
    ELSE [q |-> q, ref |-> ref]

\* The confirmation taken to be over as soon as the session is locked
ConfirmationReachedAtLock(r) == r.phase = "locked"

\* The confirmation count compared with > instead of >=
ConfirmationReachedLate(r) ==
    r.phase = "locked" /\ r.confirmationTaps > CONFIRMATION_BEATS

\* The condition of the effect "Track confirmation beats", line 105
ConfirmationReached(r) ==
    r.phase = "locked" /\ r.confirmationTaps >= CONFIRMATION_BEATS

\* The locked average delivered in time units, rounded down
LatencyInTimeUnits(avg) ==
    IF avg = None THEN 0 ELSE Get(avg)[1] \div Get(avg)[2]

\* Math.round(lockedAverage ?? 0) in milliseconds, line 107
RoundedLatency(avg) ==
    IF avg = None THEN 0 ELSE MathRound(Get(avg)[1], Get(avg)[2] * Ms(1))

\* The effect "Track confirmation beats", lines 104-110
ConfirmationEffect(r, q) ==
    IF ConfirmationReached(r)
    THEN [q EXCEPT !.detectedLatency = Some(RoundedLatency(r.lockedAverage)),
                   !.phase = "done"]
    ELSE q

\* React after a state change: render `cur` (the render before it was
\* `prev`), run the effects whose dependencies changed, in order, all
\* updates they queue applied together; render again while something
\* changed.  The result: the settled state, the ref, and whether the
\* confirmation effect called metronome.stop().
RECURSIVE Flush(_, _, _, _)
Flush(prev, cur, ref, stopped) ==
    LET runProgress == \/ cur.offsets # prev.offsets
                       \/ cur.phase # prev.phase
                       \/ cur.lockedAverage # prev.lockedAverage
        runConfirmation == \/ cur.phase # prev.phase
                           \/ cur.confirmationTaps # prev.confirmationTaps
                           \/ cur.lockedAverage # prev.lockedAverage
        a == IF runProgress THEN ProgressEffect(cur, cur, ref)
             ELSE [q |-> cur, ref |-> ref]
        b == IF runConfirmation THEN ConfirmationEffect(cur, a.q) ELSE a.q
        stops == stopped \/ (runConfirmation /\ ConfirmationReached(cur))
    IN  IF b = cur
        THEN [state |-> cur, ref |-> a.ref, stopped |-> stops]
        ELSE Flush(cur, b, a.ref, stops)

\* The state change `to` is committed: the overlay settles
Commit(to) ==
    LET f == Flush(Rendered, to, previousAvgRef, FALSE) IN
    /\ phase' = f.state.phase
    /\ offsets' = f.state.offsets
    /\ lockedAverage' = f.state.lockedAverage
    /\ confirmationTaps' = f.state.confirmationTaps
    /\ detectedLatency' = f.state.detectedLatency
    /\ previousAvgRef' = f.ref
    /\ IF f.stopped THEN StopBody
       ELSE UNCHANGED <<isPlaying, startTime, currentBeat, isCountingIn,
                        countInBeatsRemaining, tickInterval, activeTimers>>

\* startCalibration(), lines 112-120; the START button exists in phase
\* ready only (line 170).
startCalibration ==
    /\ isCalibrating
    /\ phase = "ready"
    /\ phase' = "counting"
    /\ offsets' = <<>>
    /\ lockedAverage' = None
    /\ confirmationTaps' = 0
    /\ previousAvgRef' = None
    /\ UNCHANGED <<detectedLatency, appVars>>
    /\ StartCall

\* A tap taken in every phase
TapAcceptedInAnyPhase == startTime # None

\* handleTap(), lines 123 and 142-143: the guards
TapAccepted ==
    /\ phase \in {"tapping", "locked"}
    /\ startTime # None

TappedState ==
    LET result == calculateTimingOffset(now, Get(startTime),
                                        bpmToIntervalMs(CALIBRATION_BPM))
    IN  [Rendered EXCEPT
           !.offsets = Append(offsets, result),
           !.confirmationTaps = IF phase = "locked"
                                THEN confirmationTaps + 1
                                ELSE confirmationTaps]

handleTap ==
    /\ isCalibrating
    /\ lastTap' = phase
    /\ IF TapAccepted
       THEN /\ Len(offsets) < MaxTaps
            /\ Commit(TappedState)
       ELSE UNCHANGED <<phase, offsets, lockedAverage, confirmationTaps,
                        previousAvgRef, detectedLatency,
                        isPlaying, startTime, currentBeat,
                        isCountingIn, countInBeatsRemaining, tickInterval,
                        activeTimers>>
    /\ UNCHANGED <<bpm, sound, audioVars, nextScheduledBeat, audioLatencyMs,
                   now,
                   inflight, obsVars, isCalibrating, audioLatency,
                   completeCalls, calc, screenVars>>

\* Every callback of the metronome taken to start the tapping phase
AnyCallback == Len(events') > Len(events)

\* The callbacks the overlay gives its Metronome, lines 53-64:
\* onCountInComplete sets the phase to tapping; onCountIn and onBeat set
\* display state only.
CountInCompleted ==
    \E j \in (Len(events) + 1)..Len(events') : events'[j] = OnCountInComplete

OverlayAudioDone ==
    \E i \in 1..Len(inflight), ok \in BOOLEAN :
        /\ AudioDoneBody(i, ok)
        /\ IF CountInCompleted /\ isCalibrating
           THEN LET f == Flush(Rendered, [Rendered EXCEPT !.phase = "tapping"],
                               previousAvgRef, FALSE)
                IN  /\ phase' = f.state.phase
                    /\ offsets' = f.state.offsets
                    /\ lockedAverage' = f.state.lockedAverage
                    /\ confirmationTaps' = f.state.confirmationTaps
                    /\ detectedLatency' = f.state.detectedLatency
                    /\ previousAvgRef' = f.ref
           ELSE UNCHANGED overlayVars
        /\ UNCHANGED <<bpm, startTime, audioLatencyMs, now, lastCall,
                       sessions, sessionIntervalMs, appVars>>

\* The overlay is unmounted (src/app/index.tsx line 197): the cleanup of
\* its metronome effect, lines 66-68, calls metronome.cleanup().
Unmount ==
    /\ isCalibrating' = FALSE
    /\ CleanupBody
    /\ lastCall' = [op |-> "cleanup", wasPlaying |-> isPlaying]
    /\ UNCHANGED <<bpm, sound, audioVars, nextScheduledBeat, audioLatencyMs,
                   now,
                   events, sessions, sessionIntervalMs, overlayVars,
                   lastTap, calc, screenVars>>

\* The Cancel button, lines 243-246, rendered in every phase: onCancel is
\* handleCalibrationCancel, src/app/index.tsx lines 123-125.
handleCalibrationCancel ==
    /\ isCalibrating
    /\ Unmount
    /\ UNCHANGED <<audioLatency, completeCalls>>

\* The APPLY button, rendered in phase done only (lines 231-240):
\* applyCalibration(), lines 156-160, and handleCalibrationComplete,
\* src/app/index.tsx lines 117-121.
applyCalibration ==
    /\ isCalibrating
    /\ phase = "done"
    /\ IF detectedLatency # None
       THEN /\ completeCalls' = Append(completeCalls, Get(detectedLatency))
            /\ audioLatency' = Get(detectedLatency)
            /\ Unmount
       ELSE UNCHANGED vars

-----------------------------------------------------------------------------
(* The scheduler driven by an arbitrary caller *)

Init ==
    /\ isPlaying = FALSE
    /\ bpm = 90
    /\ startTime = None
    /\ currentBeat = 0
    /\ isCountingIn = FALSE
    /\ countInBeatsRemaining = 0
    /\ tickInterval = None
    /\ sound = None
    /\ loaded = {}
    /\ lost = FALSE
    /\ nextScheduledBeat = 0
    /\ audioLatencyMs = 0
    /\ now = 0
    /\ activeTimers = 0
    /\ inflight = <<>>
    /\ events = <<>>
    /\ lastCall = [op |-> "new", wasPlaying |-> FALSE]
    /\ sessions = 0
    /\ sessionIntervalMs = 0
    /\ phase = "ready"
    /\ offsets = <<>>
    /\ lockedAverage = None
    /\ confirmationTaps = 0
    /\ previousAvgRef = None
    /\ detectedLatency = None
    /\ lastTap = "none"
    /\ isCalibrating = TRUE
    /\ audioLatency = DEFAULT_AUDIO_LATENCY_MS
    /\ completeCalls = <<>>
    /\ calc = [op |-> "none"]
    /\ lastOffset = None
    /\ screenOffsets = <<>>

\* One session: start() takes effect on the fresh scheduler only (a start()
\* while playing is still made, and ignored).
StartOnce == (sessions = 0 \/ isPlaying) /\ Start

Next ==
    \/ StartOnce
    \/ Stop
    \/ Tick
    \/ AudioDone
    \/ Advance
    \/ \E b \in BpmInputs : SetBpm(b)

Spec == Init /\ [][Next]_vars

\* Sessions that follow one another: start() after stop(), up to MaxSessions;
\* the tempo is set between sessions, as the play screen does (its BPM
\* selector is disabled while playing, src/app/index.tsx line 140).
SetBpmIdle == \E b \in BpmInputs : ~isPlaying /\ SetBpm(b)

RestartNext ==
    \/ Start
    \/ Stop
    \/ Tick
    \/ AudioDone
    \/ Advance
    \/ SetBpmIdle

RestartSpec == Init /\ [][RestartNext]_vars

\* One session during which the audio latency is set at any time
SetLatency == \E l \in LatencyInputs : SetAudioLatency(l)

LatencyNext ==
    \/ StartOnce
    \/ Stop
    \/ Tick
    \/ AudioDone
    \/ Advance
    \/ SetLatency

LatencySpec == Init /\ [][LatencyNext]_vars

\* One session of the overlay's Metronome with its audio handles accounted
\* for, ended by stop() or, when the overlay is unmounted, by cleanup()
AudioNext ==
    \/ StartOnce
    \/ Stop
    \/ Tick
    \/ AccountedAudioDone
    \/ Advance
    \/ handleCalibrationCancel

AudioSpec == Init /\ [][AudioNext]_vars

\* One session that is never stopped, under a fair cadence: the timer keeps
\* calling tick() (line 278), the clock keeps advancing up to MaxTime and
\* every audio request is settled in the end.
LiveNext ==
    \/ StartOnce
    \/ Tick
    \/ AudioDone
    \/ Advance

LiveSpec ==
    /\ Init
    /\ [][LiveNext]_vars
    /\ WF_vars(Tick)
    /\ WF_vars(AudioDone)
    /\ WF_vars(Advance)

\* The timing functions applied to arguments of their own, in milliseconds
MaxTap == 10            \* tap times range over -MaxTap*250 .. MaxTap*250
MaxOffset == 105        \* rated offsets range over -MaxOffset .. MaxOffset

TapTimeInputs == {250 * t : t \in (-MaxTap)..MaxTap}
StartTimeInputs == {0, 1000}
IntervalInputs == {300, 500, 1000}
OffsetInputs == (-MaxOffset)..MaxOffset

ApplyTimingOffset ==
    /\ \E tapTime \in TapTimeInputs, start \in StartTimeInputs,
          beatIntervalMs \in IntervalInputs :
           calc' = [op |-> "calculateTimingOffset",
                    tapTime |-> tapTime,
                    startTime |-> start,
                    beatIntervalMs |-> beatIntervalMs,
                    offsetMs |->
                        calculateTimingOffset(tapTime, start, beatIntervalMs),
                    nearestBeatTime |->
                        nearestBeatTime(tapTime, start, beatIntervalMs)]
    /\ UNCHANGED <<metronomeVars, envVars, audioVars, obsVars, overlayVars,
                   lastTap, isCalibrating, audioLatency, completeCalls,
                   screenVars>>

ApplyRating ==
    /\ \E offsetMs \in OffsetInputs :
           calc' = [op |-> "getAccuracyRating",
                    offsetMs |-> offsetMs,
                    rating |-> getAccuracyRating(offsetMs)]
    /\ UNCHANGED <<metronomeVars, envVars, audioVars, obsVars, overlayVars,
                   lastTap, isCalibrating, audioLatency, completeCalls,
                   screenVars>>

TimingNext ==
    \/ ApplyTimingOffset
    \/ ApplyRating

TimingSpec == Init /\ [][TimingNext]_vars

\* The play screen, src/app/index.tsx, with its own Metronome.  The handlers
\* are callable at any moment: the screen shows or enables its buttons and
\* its tap zone by its own isPlaying and isCountingIn (lines 140-194), which
\* follow the metronome with a delay (setIsPlaying after await start(),
\* line 85), so every reachable call is among those made here.
MaxScreenTaps == 2      \* taps that produce a sample in one behaviour

\* handleStart(), lines 75-86, up to its await
handleStart ==
    /\ sessions = 0 \/ isPlaying
    /\ lastOffset' = None
    /\ screenOffsets' = <<>>
    /\ StartCall
    /\ UNCHANGED <<overlayVars, lastTap, isCalibrating, audioLatency,
                   completeCalls, calc>>

\* handleStop(), lines 88-95
handleStop == Stop

\* The reference with the audio latency left out
TapReferenceRaw == Get(startTime)

\* handleTap(), line 106: the reference a tap is measured against
TapReference == Get(getAdjustedStartTime)

\* handleTap(tapTime), lines 97-115; tapTime is performance.now() taken by
\* the tap zone (src/components/TapZone.tsx).  lastTap records what the
\* metronome was doing.
GameScreenHandleTap ==
    /\ lastTap' = IF isCountingIn THEN "countIn"
                  ELSE IF startTime = None THEN "idle" ELSE "playing"
    /\ IF ~isCountingIn /\ getAdjustedStartTime # None
       THEN LET result == calculateTimingOffset(now, TapReference,
                                                bpmToIntervalMs(bpm))
            IN  /\ Len(screenOffsets) < MaxScreenTaps
                /\ lastOffset' = Some(result)
                /\ screenOffsets' = Append(screenOffsets, result)
       ELSE UNCHANGED screenVars
    /\ UNCHANGED <<metronomeVars, envVars, audioVars, obsVars, overlayVars,
                   isCalibrating, audioLatency, completeCalls, calc>>

\* handleCalibrationComplete(latencyMs), lines 117-121, and the effect that
\* follows the change of audioLatency, lines 66-68: setAudioLatency
handleCalibrationComplete(latencyMs) ==
    /\ isCalibrating
    /\ audioLatency' = latencyMs
    /\ isCalibrating' = FALSE
    /\ audioLatencyMs' = latencyMs
    /\ lastCall' = [op |-> "setAudioLatency", wasPlaying |-> isPlaying]
    /\ UNCHANGED <<isPlaying, bpm, startTime, currentBeat, isCountingIn,
                   countInBeatsRemaining, tickInterval, sound, audioVars,
                   nextScheduledBeat, envVars, events, sessions,
                   sessionIntervalMs, overlayVars, lastTap, completeCalls,
                   calc, screenVars>>

PlayCalibrated == \E l \in LatencyInputs : handleCalibrationComplete(l)

PlayNext ==
    \/ handleStart
    \/ handleStop
    \/ GameScreenHandleTap
    \/ PlayCalibrated
    \/ Tick
    \/ AudioDone
    \/ Advance

PlaySpec == Init /\ [][PlayNext]_vars

\* setBpm called with arbitrary numbers
MaxBpmArgument == 260   \* arguments range over -260 .. 260

BpmArguments == ((-MaxBpmArgument)..MaxBpmArgument) \cup {NaN}

SetBpmAny == \E b \in BpmArguments : SetBpm(b)

BpmNext == SetBpmAny

BpmSpec == Init /\ [][BpmNext]_vars

\* The calibration overlay with its own Metronome
CalNext ==
    \/ startCalibration
    \/ handleTap
    \/ Tick
    \/ OverlayAudioDone
    \/ Advance
    \/ handleCalibrationCancel
    \/ applyCalibration

CalSpec == Init /\ [][CalNext]_vars


-----------------------------------------------------------------------------
(* Claims about the scheduler *)

\* The beat index an event stands for: onCountIn(r) is the beat -r
BeatIndexOf(e) == IF e[1] = "onCountIn" THEN -e[2] ELSE e[2]

BeatEvents == SelectSeq(events, LAMBDA e : e[1] # "onCountInComplete")

\* C1: within one session the beat events carry strictly increasing beat
\* indices, each index from -countInBeats upward exactly once and none
\* skipped, and every onBeat(k, t) carries t = startTime + k * intervalMs.
C1_BeatIndicesInOrder ==
    isPlaying =>
        \A i \in 1..Len(BeatEvents) :
            LET e == BeatEvents[i] IN
            /\ BeatIndexOf(e) = -countInBeats + (i - 1)
            /\ e[1] = "onBeat" =>
                   e[3] = Get(startTime) + e[2] * sessionIntervalMs

\* C2: once stop() has returned no event is emitted until the next start()
C2_NoEventWhileStopped ==
    [][(~isPlaying /\ ~isPlaying') => events' = events]_vars

\* C3: a session that is not stopped emits onCountIn(N), onCountIn(N-1), ...,
\* onCountIn(1), onCountInComplete, onBeat(0, startTime), onBeat(1, ..), ...
\* in this order.
ExpectedEvent(i, e) ==
    IF i <= countInBeats THEN e = OnCountIn(countInBeats - i + 1)
    ELSE IF i = countInBeats + 1 THEN e = OnCountInComplete
    ELSE /\ e[1] = "onBeat"
         /\ e[2] = i - countInBeats - 2
         /\ e[2] = 0 => e[3] = Get(startTime)

C3_EventOrder ==
    isPlaying => \A i \in 1..Len(events) : ExpectedEvent(i, events[i])

\* A tick() step that fires a beat: it suspends on playClick() having
\* advanced nextScheduledBeat.
TickFires ==
    /\ Len(inflight') = Len(inflight) + 1
    /\ inflight'[Len(inflight')].kind = "tick"

\* C4: setBpm while playing leaves the schedule of the session alone: every
\* beat k is fired against startTime + k * (the interval at start()).
C4_SetBpmKeepsSchedule ==
    [][TickFires =>
         LET t == Get(startTime) + nextScheduledBeat * sessionIntervalMs IN
         /\ now >= t - Ms(AUDIO_LOOKAHEAD_MS)
         /\ inflight'[Len(inflight')].nextBeatTime = t]_vars

\* C9: start() on an idle scheduler at clock value T sets isPlaying,
\* isCountingIn, countInRemaining = N, currentBeatIndex = -N and
\* startTime = T + N * (60000 / bpm).
C9_StartAnchorsBeatZero ==
    [][(~isPlaying /\ isPlaying') =>
         /\ isCountingIn'
         /\ countInBeatsRemaining' = DEFAULT_COUNT_IN_BEATS
         /\ currentBeat' = -DEFAULT_COUNT_IN_BEATS
         /\ startTime' =
                Some(now + DEFAULT_COUNT_IN_BEATS * (Ms(60000) \div bpm))]_vars

C9_Witness ==
    /\ lastCall = [op |-> "start", wasPlaying |-> FALSE]
    /\ isPlaying
    /\ sessions = 2
    /\ bpm = 200
    /\ now > 0
    /\ startTime = Some(now + 4 * Ms(300))

\* C10: start() while the scheduler is playing changes nothing: no schedule
\* field, no event, no further cadence timer (none created, none pending).
C10_StartWhilePlayingIsNoOp ==
    [][(isPlaying /\ Start) =>
         UNCHANGED <<isPlaying, startTime, currentBeat, nextScheduledBeat,
                     isCountingIn, countInBeatsRemaining, events,
                     activeTimers, tickInterval, inflight>>]_vars

C10_Witness ==
    /\ lastCall = [op |-> "start", wasPlaying |-> TRUE]
    /\ isPlaying
    /\ currentBeat > -countInBeats


\* The number of events of s equal to e
RECURSIVE CountOf(_, _)
CountOf(s, e) ==
    IF s = <<>> THEN 0
    ELSE (IF s[1] = e THEN 1 ELSE 0) + CountOf(Tail(s), e)

\* C11: stop() while playing sets isPlaying = false, startTime = none,
\* currentBeatIndex = 0, isCountingIn = false and countInRemaining = 0, and
\* changes nothing when not playing; a start() that takes effect, whatever
\* came before it, gives the schedule state of a start() on a never-used
\* scheduler, and its session emits what a first session emits: nothing
\* before onCountIn(N), and onCountIn(N) once.
C11_StopResetsAndStartIsFresh ==
    /\ [][Stop =>
            IF isPlaying
            THEN /\ ~isPlaying'
                 /\ startTime' = None
                 /\ currentBeat' = 0
                 /\ ~isCountingIn'
                 /\ countInBeatsRemaining' = 0
            ELSE UNCHANGED <<metronomeVars, events, activeTimers>>]_vars
    /\ [][(~isPlaying /\ isPlaying') =>
            /\ currentBeat' = -countInBeats
            /\ nextScheduledBeat' = -countInBeats
            /\ isCountingIn'
            /\ countInBeatsRemaining' = countInBeats
            /\ events' = <<>>]_vars
    /\ [](isPlaying =>
            /\ CountOf(events, OnCountIn(countInBeats)) <= 1
            /\ events # <<>> => events[1] = OnCountIn(countInBeats))

\* C12: in every reachable state in which the scheduler is playing,
\* isCountingIn is true exactly when currentBeatIndex < 0, the states in
\* which a tick is suspended on its audio request included.
C12_CountingInIffNegativeBeat ==
    isPlaying => (isCountingIn <=> currentBeat < 0)

\* C13: in a session that reaches beat index 0 onCountInComplete is emitted
\* exactly once, before every onBeat and together with the first of them;
\* isCountingIn goes from true to false with it, once, and no later beat
\* emits it again.
C13_CountInCompletesOnce ==
    /\ [](isPlaying =>
            /\ CountOf(events, OnCountInComplete) <= 1
            /\ isCountingIn <=> CountOf(events, OnCountInComplete) = 0
            /\ \A j \in 1..Len(events) :
                   /\ events[j] = OnCountInComplete =>
                          /\ j < Len(events)
                          /\ events[j + 1][1] = "onBeat"
                          /\ events[j + 1][2] >= 0
                   /\ events[j][1] = "onBeat" =>
                          \E i \in 1..(j - 1) : events[i] = OnCountInComplete)
    /\ [][(isPlaying /\ isPlaying' /\ ~isCountingIn) => ~isCountingIn']_vars

C13_Witness ==
    /\ isPlaying
    /\ sessions = 2
    /\ ~isCountingIn
    /\ CountOf(events, OnCountInComplete) = 1
    /\ Len(events) >= 3
    /\ events[Len(events)][1] = "onBeat"
    /\ events[Len(events)][2] = 1
    /\ events[Len(events) - 1][1] = "onBeat"

\* The times the suspended tick() calls have computed for their beats
PendingBeatTimes ==
    {inflight[i].nextBeatTime :
        i \in {j \in 1..Len(inflight) : inflight[j].kind = "tick"}}

\* C14: getAdjustedStartTime() is startTime + audioLatencyMs, and no value
\* while startTime is unset; the audio latency has no part in scheduling:
\* whatever it is, tick() fires beat k exactly when the clock has reached
\* startTime + k * intervalMs - 50 with the raw startTime, and every
\* onBeat carries the time computed from the raw startTime.
C14_LatencyLeavesScheduleAlone ==
    /\ [](getAdjustedStartTime =
             IF startTime = None THEN None
             ELSE Some(startTime[1] + Ms(audioLatencyMs)))
    /\ [][(Tick /\ isPlaying) =>
            LET t == startTime[1] + nextScheduledBeat * (Ms(60000) \div bpm)
            IN  IF now >= t - Ms(AUDIO_LOOKAHEAD_MS)
                THEN /\ TickFires
                     /\ inflight'[Len(inflight')].nextBeatTime = t
                     /\ currentBeat' = nextScheduledBeat
                     /\ nextScheduledBeat' = nextScheduledBeat + 1
                ELSE UNCHANGED <<currentBeat, nextScheduledBeat,
                                 inflight>>]_vars
    /\ [][\A j \in (Len(events) + 1)..Len(events') :
            events'[j][1] = "onBeat" => events'[j][3] \in PendingBeatTimes]_vars

C14_Witness ==
    /\ isPlaying
    /\ audioLatencyMs = 80
    /\ getAdjustedStartTime = Some(startTime[1] + 240)
    /\ Len(events) = 6
    /\ events[6] = OnBeat(0, startTime[1])
    /\ lastCall.op = "tick"

\* What a resumed start() or tick() emits, from the schedule state alone
ResumedEvents(r) ==
    IF r.kind = "start" THEN <<OnCountIn(countInBeatsRemaining)>>
    ELSE IF currentBeat < 0 THEN <<OnCountIn(-currentBeat)>>
    ELSE (IF isCountingIn THEN <<OnCountInComplete>> ELSE <<>>)
         \o <<OnBeat(currentBeat, r.nextBeatTime)>>

\* The suspended calls, the audio handles they hold left aside
Calls(recs) ==
    [j \in 1..Len(recs) |-> [kind |-> recs[j].kind, pc |-> recs[j].pc,
                             nextBeatTime |-> recs[j].nextBeatTime]]

\* C15: a failing audio request never halts scheduling: whenever the
\* playback request of a suspended start() or tick() is over, resolved or
\* rejected, the call resumes and emits the events of its beat, the same in
\* both cases; while every request fails, sound stays unset and the beats
\* are still fired at their times.
C15_FailedAudioKeepsSchedule ==
    /\ [][Len(inflight') < Len(inflight) =>
            \E i \in 1..Len(inflight) :
                /\ Calls(inflight') = Calls(RemoveAt(inflight, i))
                /\ events' = events \o ResumedEvents(inflight[i])]_vars
    /\ [][(Tick /\ isPlaying /\ sound = None
            /\ now >= NextBeatTime - Ms(AUDIO_LOOKAHEAD_MS)) =>
            /\ currentBeat' = nextScheduledBeat
            /\ nextScheduledBeat' = nextScheduledBeat + 1]_vars

C15_Witness ==
    /\ isPlaying
    /\ sound = None
    /\ inflight = <<>>
    /\ events = <<OnCountIn(4), OnCountIn(3), OnCountIn(2), OnCountIn(1),
                  OnCountInComplete, OnBeat(0, startTime[1])>>

\* C16: audio playback is fire-and-forget: a start() or a tick() that
\* issues a playback request emits the event of its beat without waiting
\* for the request, in the step that issues it.
C16_EventsDoNotWaitForAudio ==
    [][/\ (~isPlaying /\ isPlaying') => events' = <<OnCountIn(countInBeats)>>
       /\ TickFires => Len(events') > Len(events)]_vars

\* C22: after any sequence of setBpm calls with arbitrary numeric arguments
\* the stored bpm lies in [40, 200], so the beat interval 60000 / bpm lies
\* in [300, 1500] ms and is positive.
C22_BpmClamped ==
    /\ bpm >= 40
    /\ bpm <= 200
    /\ getBeatIntervalMs >= Ms(300)
    /\ getBeatIntervalMs <= Ms(1500)

-----------------------------------------------------------------------------
(* Claims about the timing functions *)

\* num / den rounded to the nearest integer, a half away from zero
RoundHalfAwayFromZero(num, den) ==
    IF num >= 0 THEN (2 * num + den) \div (2 * den)
    ELSE -((2 * (-num) + den) \div (2 * den))

\* C17: for all tapTime, startTime and intervalMs > 0 the tap is resolved
\* to beatNumber = round((tapTime - startTime) / intervalMs), a half
\* rounded away from zero, also when the tap precedes startTime, and
\* offsetMs = tapTime - (startTime + beatNumber * intervalMs).
C17_OffsetRoundsHalfAwayFromZero ==
    calc.op = "calculateTimingOffset" =>
        LET beatNumber == RoundHalfAwayFromZero(calc.tapTime - calc.startTime,
                                                calc.beatIntervalMs)
            beatTime == calc.startTime + beatNumber * calc.beatIntervalMs
        IN  /\ calc.nearestBeatTime = beatTime
            /\ calc.offsetMs = calc.tapTime - beatTime

\* C18: the rating depends on |offsetMs| only, with inclusive upper bounds:
\* <= 20 perfect, 21..50 good, 51..100 okay, > 100 miss; the rating of x
\* is the rating of -x.
C18_RatingThresholds ==
    calc.op = "getAccuracyRating" =>
        LET a == IF calc.offsetMs < 0 THEN -calc.offsetMs ELSE calc.offsetMs
        IN  /\ calc.rating = (IF a <= 20 THEN "perfect"
                              ELSE IF a <= 50 THEN "good"
                              ELSE IF a <= 100 THEN "okay"
                              ELSE "miss")
            /\ getAccuracyRating(-calc.offsetMs) = calc.rating

C18_Witness ==
    calc = [op |-> "getAccuracyRating", offsetMs |-> -100, rating |-> "okay"]

-----------------------------------------------------------------------------
(* Claims about the calibrator *)

\* A step in which a tap was accepted: one sample was appended
TapAcceptedStep == Len(offsets') = Len(offsets) + 1

AverageOf(o) == <<SumSeq(o), Len(o)>>

WithinTwoMs(a, b) == Abs(a[1] * b[2] - b[1] * a[2]) <= Ms(2) * a[2] * b[2]

\* C5: in phase tapping a tap that brings the number of offsets to n >= 8
\* locks exactly when previousAverage is set and the new average is within
\* 2 ms of it, with lockedAverage = the new average and confirmationCount = 1;
\* otherwise the session stays in tapping with previousAverage = the new
\* average.
C5_LockIffStable ==
    [][(phase = "tapping" /\ TapAcceptedStep /\ Len(offsets') >= 8) =>
         LET avg == AverageOf(offsets') IN
         IF previousAvgRef # None /\ WithinTwoMs(avg, Get(previousAvgRef))
         THEN /\ phase' = "locked"
              /\ lockedAverage' = Some(avg)
              /\ confirmationTaps' = 1
         ELSE /\ phase' = "tapping"
              /\ previousAvgRef' = Some(avg)]_vars

C5_Witness ==
    /\ phase = "locked"
    /\ confirmationTaps = 1
    /\ Len(offsets) = 12
    /\ lockedAverage = Some(AverageOf(offsets))
    /\ offsets[1] # offsets[12]

\* The running average of o moved by at most 2 ms with every sample
RunningAverageStable(o) ==
    \A i \in 2..Len(o) :
        WithinTwoMs(AverageOf(SubSeq(o, 1, i)), AverageOf(SubSeq(o, 1, i - 1)))

\* C6 as claimed: when the first 8 accepted taps have a stable running
\* average the session is locked once the 8th tap has been processed.
C6_LockedAtEighthTap ==
    (Len(offsets) = 8 /\ RunningAverageStable(offsets)) => phase = "locked"

\* C6 as amended: the 8th tap only records previousAverage and leaves the
\* session in tapping; when the first 9 accepted taps have a stable running
\* average the session is locked once the 9th tap has been processed.
C6_LockedAtNinthTap ==
    /\ Len(offsets) = 8 =>
           /\ phase = "tapping"
           /\ previousAvgRef = Some(AverageOf(offsets))
    /\ (Len(offsets) = 9 /\ RunningAverageStable(offsets)) =>
           /\ phase = "locked"
           /\ confirmationTaps = 1
           /\ lockedAverage = Some(AverageOf(offsets))

C6_Witness ==
    /\ Len(offsets) = 9
    /\ RunningAverageStable(offsets)
    /\ phase = "locked"

\* C7: a tap accepted in phase locked whose average over all offsets is more
\* than 2 ms from lockedAverage leaves the session in tapping, lockedAverage
\* cleared, confirmationCount = 0, previousAverage = that average, and the
\* offsets grown by the new sample only.
C7_DriftRevertsToTapping ==
    [][(/\ phase = "locked"
        /\ TapAcceptedStep
        /\ ~WithinTwoMs(AverageOf(offsets'), Get(lockedAverage))) =>
         /\ phase' = "tapping"
         /\ lockedAverage' = None
         /\ confirmationTaps' = 0
         /\ previousAvgRef' = Some(AverageOf(offsets'))
         /\ SubSeq(offsets', 1, Len(offsets)) = offsets]_vars

\* C8: in phase locked a tap that keeps the average within 2 ms of
\* lockedAverage adds exactly 1 to confirmationCount; when the count reaches
\* 16 the session is done, the scheduler is stopped and the detected latency
\* is Math.round of the lockedAverage of that locked run.
C8_ConfirmationCompletes ==
    [][(/\ phase = "locked"
        /\ TapAcceptedStep
        /\ WithinTwoMs(AverageOf(offsets'), Get(lockedAverage))) =>
         /\ confirmationTaps' = confirmationTaps + 1
         /\ lockedAverage' = lockedAverage
         /\ IF confirmationTaps' >= 16
            THEN /\ phase' = "done"
                 /\ ~isPlaying'
                 /\ LET avg == Get(lockedAverage) IN
                    detectedLatency' =
                        Some((2 * avg[1] + Ms(1) * avg[2])
                                 \div (2 * Ms(1) * avg[2]))
            ELSE /\ phase' = "locked"
                 /\ detectedLatency' = None]_vars

C8_Witness ==
    /\ phase = "done"
    /\ confirmationTaps = 16
    /\ ~isPlaying
    /\ detectedLatency # None
    /\ offsets[1] # offsets[Len(offsets)]

\* C19: a calibration tap is accepted in the phases tapping and locked
\* only: a tap in ready, counting or done leaves phase, offsets,
\* lockedAverage, confirmationCount and previousAverage unchanged.
C19_TapIgnoredOutsideTapping ==
    /\ [][(handleTap /\ phase \in {"ready", "counting", "done"}) =>
            UNCHANGED <<phase, offsets, lockedAverage, confirmationTaps,
                        previousAvgRef>>]_vars
    /\ [][offsets' # offsets =>
            \/ phase \in {"tapping", "locked"}
            \/ phase = "ready" /\ offsets' = <<>>]_vars

C19_Witness ==
    /\ lastTap = "done"
    /\ phase = "done"
    /\ isCalibrating
    /\ confirmationTaps = 16
    /\ startTime = None

\* C20: cancelling a calibration session, from any phase, stops the
\* internal scheduler and delivers no result: the scheduler is not playing
\* from then on, onCalibrationComplete is never invoked for the session
\* and the audio latency applied before is unchanged.
C20_CancelDeliversNothing ==
    /\ [][handleCalibrationCancel =>
            /\ ~isPlaying'
            /\ ~isCalibrating'
            /\ UNCHANGED <<audioLatency, completeCalls>>]_vars
    /\ [][~isCalibrating =>
            /\ ~isPlaying'
            /\ UNCHANGED <<isCalibrating, audioLatency, completeCalls>>]_vars
    /\ []((~isCalibrating /\ completeCalls = <<>>) =>
            /\ ~isPlaying
            /\ audioLatency = DEFAULT_AUDIO_LATENCY_MS)

C20_Witness ==
    /\ ~isCalibrating
    /\ completeCalls = <<>>
    /\ phase = "locked"
    /\ confirmationTaps = 15
    /\ lastCall.op = "cleanup"
    /\ lastCall.wasPlaying
    /\ ~isPlaying
    /\ inflight = <<>>
    /\ sound = None

\* C21: in every reachable calibration state lockedAverage is set only if
\* the phase is locked or done, and it is set whenever the phase is locked;
\* every transition from tapping into locked sets confirmationCount to 1.
C21_LockedAverageFollowsPhase ==
    /\ [](lockedAverage # None => phase \in {"locked", "done"})
    /\ [](phase = "locked" => lockedAverage # None)
    /\ [][(phase = "tapping" /\ phase' = "locked") =>
            confirmationTaps' = 1]_vars

C21_Witness ==
    /\ phase = "locked"
    /\ lastTap = "tapping"
    /\ lockedAverage = Some(AverageOf(offsets))
    /\ confirmationTaps = 1
    /\ Len(offsets) = 10

\* C23: the metronome holds at most one loaded audio handle at a time, and
\* no loaded handle is dropped without having been unloaded.
C23_OneLiveHandle ==
    /\ Cardinality(loaded) <= 1
    /\ ~lost

\* The metronome emits onCountInComplete in this step
EmitsCountInComplete ==
    \E j \in (Len(events) + 1)..Len(events') : events'[j] = OnCountInComplete

\* C24: starting calibration moves ready to counting with offsets empty,
\* lockedAverage unset, confirmationCount 0 and previousAverage unset, and
\* starts the metronome; the phase becomes tapping from counting only in a
\* step in which the metronome emits onCountInComplete, and no offset is
\* collected before the count-in has completed.
C24_CountingThenTapping ==
    /\ [][phase = "ready" /\ phase' # "ready"
            => /\ phase' = "counting"
               /\ offsets' = <<>>
               /\ lockedAverage' = None
               /\ confirmationTaps' = 0
               /\ previousAvgRef' = None
               /\ isPlaying' /\ startTime' # None
               /\ \E j \in 1..Len(inflight') : inflight'[j].kind = "start"]_vars
    /\ [][phase = "counting" /\ phase' # "counting"
            => phase' = "tapping" /\ EmitsCountInComplete]_vars
    /\ [](phase = "ready" => offsets = <<>>)
    /\ [](offsets # <<>> => CountOf(events, OnCountInComplete) >= 1)

\* The count-in has completed, the phase is tapping and a tap was collected
C24_Witness ==
    /\ phase = "tapping"
    /\ Len(offsets) = 1
    /\ CountOf(events, OnCountInComplete) = 1

\* C25: while fewer than 8 offsets have been collected the phase is never
\* locked or done and previousAverage is unset.
C25_NoCheckBelowMinimum ==
    Len(offsets) < MIN_TAPS_BEFORE_LOCK
        => phase \notin {"locked", "done"} /\ previousAvgRef = None

\* Seven taps collected, one short of the minimum
C25_Witness ==
    /\ Len(offsets) = MIN_TAPS_BEFORE_LOCK - 1
    /\ phase = "tapping"
    /\ lastTap = "tapping"

\* The scheduled time of beat k, startTime + k * intervalMs
ScheduledTime(k) == Get(startTime) + k * (Ms(60000) \div bpm)

\* The tick fires a beat: it advances the schedule or requests a click
TickAdvances ==
    \/ currentBeat' # currentBeat
    \/ nextScheduledBeat' # nextScheduledBeat
    \/ Len(inflight') > Len(inflight)

\* C26: tick() changes nothing and emits nothing when the metronome is not
\* playing; when playing it fires the next beat k only if
\* now >= startTime + k * intervalMs - 50, and when that is false it leaves
\* the schedule state unchanged.
C26_TickFiresOnlyDueBeats ==
    [][Tick =>
        /\ ~isPlaying => UNCHANGED <<metronomeVars, audioVars, inflight,
                                     activeTimers, events>>
        /\ isPlaying /\ TickAdvances
              => /\ startTime # None
                 /\ now >= ScheduledTime(nextScheduledBeat) - Ms(50)
                 /\ currentBeat' = nextScheduledBeat
        /\ isPlaying /\ startTime # None
              /\ now < ScheduledTime(nextScheduledBeat) - Ms(50)
              => UNCHANGED <<metronomeVars, audioVars, inflight,
                             activeTimers, events>>]_vars

\* A tick has fired a beat at the first clock value at which it was due
C26_Witness ==
    /\ lastCall = [op |-> "tick", wasPlaying |-> TRUE]
    /\ isPlaying
    /\ \E j \in 1..Len(inflight) :
          /\ inflight[j].kind = "tick"
          /\ inflight[j].nextBeatTime = ScheduledTime(currentBeat)
          /\ now >= inflight[j].nextBeatTime - Ms(50)
          /\ now - Ms(ClockStep) < inflight[j].nextBeatTime - Ms(50)

\* C27: while isPlaying stays true, currentBeat never decreases.
C27_BeatIndexNeverDecreases ==
    [][isPlaying /\ isPlaying' => currentBeat' >= currentBeat]_vars

\* C29: the metronome never has more than one active cadence timer, and
\* none is active while it is stopped.
C29_AtMostOneTimer ==
    /\ activeTimers <= 1
    /\ ~isPlaying => activeTimers = 0

\* No call of start() is suspended at its await
StartCompleted ==
    /\ sessions >= 1
    /\ \A j \in 1..Len(inflight) : inflight[j].kind # "start"

\* C30: a single tick advances the schedule by at most one beat index, to
\* the index that was scheduled next, and once start() has completed
\* nextScheduledBeat = currentBeat + 1 whenever the metronome is playing.
C30_OneBeatPerTick ==
    /\ [][Tick => \/ UNCHANGED <<currentBeat, nextScheduledBeat>>
                  \/ /\ currentBeat' = nextScheduledBeat
                     /\ nextScheduledBeat' = nextScheduledBeat + 1]_vars
    /\ [](isPlaying /\ StartCompleted
            => nextScheduledBeat = currentBeat + 1)

\* The play screen appends a sample in this step
SampleAppended == Len(screenOffsets') = Len(screenOffsets) + 1

\* C28: on the play screen a tap produces an offset sample only when the
\* metronome is not counting in and has a start time, the sample is the
\* offset of the tap from the nearest beat counted from
\* startTime + audioLatencyMs, and every other tap leaves offsets as it is.
C28_TapMeasuredAgainstAdjustedStart ==
    [][GameScreenHandleTap =>
        /\ SampleAppended
              => /\ ~isCountingIn
                 /\ startTime # None
                 /\ screenOffsets' =
                      Append(screenOffsets,
                             calculateTimingOffset(
                                 now, Get(startTime) + Ms(audioLatencyMs),
                                 Ms(60000) \div bpm))
        /\ isCountingIn \/ startTime = None
              => UNCHANGED <<screenOffsets, lastOffset>>
        /\ screenOffsets' # screenOffsets => SampleAppended]_vars

\* A tap was measured with an audio latency of 80 ms in force: counted from
\* the raw start time its offset would have been another one
C28_Witness ==
    /\ lastTap = "playing"
    /\ audioLatencyMs = 80
    /\ startTime # None
    /\ screenOffsets # <<>>
    /\ lastOffset = Some(calculateTimingOffset(
                             now, Get(startTime) + Ms(80), Ms(60000) \div bpm))
    /\ lastOffset # Some(calculateTimingOffset(
                             now, Get(startTime), Ms(60000) \div bpm))

\* C31: the session enters done only on a tap after which the average of
\* all offsets is within 2 ms of lockedAverage; a tap in locked that moves
\* the average further away produces no detected latency.
C31_DoneOnlyOnStableTap ==
    /\ [][phase # "done" /\ phase' = "done"
            => /\ phase = "locked"
               /\ TapAcceptedStep
               /\ lockedAverage # None
               /\ WithinTwoMs(AverageOf(offsets'), Get(lockedAverage))]_vars
    /\ [][(/\ phase = "locked"
            /\ TapAcceptedStep
            /\ ~WithinTwoMs(AverageOf(offsets'), Get(lockedAverage)))
            => phase' # "done" /\ detectedLatency' = detectedLatency]_vars

\* The least number of accepted taps of a completed calibration: the lock
\* comes with the 9th at the earliest and 15 more confirm it
MinTapsToDone == MIN_TAPS_BEFORE_LOCK + CONFIRMATION_BEATS

\* C32: no calibration session is done before 24 taps have been accepted
\* since its start.
C32_DoneNeedsTwentyFourTaps ==
    phase = "done" => Len(offsets) >= 24

\* A session done with exactly 24 taps
C32_Witness ==
    /\ phase = "done"
    /\ Len(offsets) = MinTapsToDone
    /\ detectedLatency # None

C34_ConfirmationCountRange ==
    /\ phase \in {"ready", "counting", "tapping"} => confirmationTaps = 0
    /\ phase = "locked" =>
          confirmationTaps >= 1 /\ confirmationTaps <= CONFIRMATION_BEATS
    /\ confirmationTaps <= CONFIRMATION_BEATS

\* A locked session one tap short of its confirmation
C34_Witness ==
    /\ phase = "locked"
    /\ confirmationTaps = CONFIRMATION_BEATS - 1
    /\ lastTap = "locked"

\* n is an integer nearest to the quotient avg, taken in milliseconds
IsNearestInteger(n, avg) ==
    2 * Abs(n * avg[2] * Ms(1) - avg[1]) <= avg[2] * Ms(1)

\* C35: onCalibrationComplete is invoked only while the phase is done, with
\* the latency detected at the transition to done, which is the rounded
\* lockedAverage of the locked run that was completed; the latency the play
\* screen applies changes only through that invocation.
C35_CompleteOnlyWhenDone ==
    /\ [][completeCalls' # completeCalls
            => /\ phase = "done"
               /\ detectedLatency # None
               /\ completeCalls' = Append(completeCalls, Get(detectedLatency))
               /\ audioLatency' = Get(detectedLatency)]_vars
    /\ [][phase # "done" /\ phase' = "done"
            => /\ lockedAverage # None
               /\ detectedLatency' # None
               /\ IsNearestInteger(Get(detectedLatency'),
                                   Get(lockedAverage))]_vars
    /\ [][phase = "done" => detectedLatency' = detectedLatency]_vars
    /\ [][audioLatency' # audioLatency
            => completeCalls' # completeCalls]_vars
    /\ [](phase # "done" => completeCalls = <<>>)

\* The detected latency of 133 ms was delivered and is applied
C35_Witness ==
    /\ phase = "done"
    /\ completeCalls = <<133>>
    /\ audioLatency = 133
    /\ ~isCalibrating

\* onBeat(k) has been emitted in the session
BeatEmitted(k) ==
    \E j \in 1..Len(events) : events[j][1] = "onBeat" /\ events[j][2] = k

\* A session is running whose beats up to MaxBeat the clock will reach
SessionWithinClock ==
    /\ isPlaying
    /\ startTime # None
    /\ Get(startTime) + MaxBeat * getBeatIntervalMs <= Ms(MaxTime)

\* C36: under a fair cadence, an advancing clock and audio requests that
\* are all settled in the end, a session that was started and is never
\* stopped eventually emits onCountInComplete and eventually emits
\* onBeat(k) for every k from 0 up to MaxBeat.
C36_EveryBeatEventuallyEmitted ==
    SessionWithinClock ~>
        (/\ CountOf(events, OnCountInComplete) >= 1
         /\ \A k \in 0..MaxBeat : BeatEmitted(k))

\* What the code does guarantee of such a session: the count-in is completed
\* and the last beat the clock reaches is emitted.
CountInEventuallyCompletes ==
    SessionWithinClock ~>
        (CountOf(events, OnCountInComplete) >= 1 /\ BeatEmitted(MaxBeat))

=============================================================================
